---------------------------- MODULE Spec2Model ----------------------------
(***************************************************************************)
(* proto_ros: translation between ROS message definitions (msg) and        *)
(* Protobuf schemas (proto).                                               *)
(*                                                                         *)
(*   msg2proto.py       msg text -> parse_msg -> generate_proto -> proto   *)
(*   protoc_gen_msg.py  protoc plugin: CodeGeneratorRequest -> msg files   *)
(*   protoc_gen_json.py protoc plugin: descriptor dump                     *)
(*                                                                         *)
(* Python strings are modelled as sequences of one-character strings, so   *)
(* that split, replace, startswith and the regular expressions act on the  *)
(* characters as the code does.                                            *)
(***************************************************************************)
EXTENDS Integers, Sequences, FiniteSets, TLC

VARIABLES
    pc,            \* position of the running tool
    type_input,    \* type tables: the name or kind looked up
    mapped_type,   \* type tables: result of the first lookup
    back_type,     \* type tables: result of mapping mapped_type back
    parsed_msg,    \* generate_proto: the Document (list of line dicts)
    msg_name,      \* generate_proto: name of the message being rendered
    package,       \* generate_proto / msg2proto.main: --package
    proto,         \* generate_proto: the rendered proto
    msg_files,     \* msg2proto.main: texts of the *.msg files of msg_dir
    file_idx,      \* msg2proto.main: index of the file being converted
    proto_dir,     \* msg2proto.main: files written so far
    data,          \* protoc_gen_msg.main: the request read from stdin
    request,       \* protoc_gen_msg.main: the CodeGeneratorRequest parsed
    response,      \* protoc_gen_msg.main: the CodeGeneratorResponse
    exit_status,   \* protoc_gen_msg.main: how the plugin process ended
    hash_seed,     \* the interpreter: the hash of each str, from its hash seed
    returned       \* generate_proto: the texts returned by the calls so far

vars == << pc, type_input, mapped_type, back_type, parsed_msg, msg_name,
           package, proto, msg_files, file_idx, proto_dir, data,
           request, response, exit_status, hash_seed, returned >>

typeVars == << type_input, mapped_type, back_type >>
fwdVars == << parsed_msg, msg_name, package, proto >>
driverVars == << msg_files, file_idx, proto_dir >>
pluginVars == << data, request, response, exit_status >>
runVars == << hash_seed, returned >>

\* Value of a variable the running tool does not use.
Unused == "unused"

(***************************************************************************)
(* Python str and dict operations                                          *)
(***************************************************************************)

\* str.replace(old, new) for one-character old and new
Replace(s, old, new) == [i \in 1..Len(s) |-> IF s[i] = old THEN new ELSE s[i]]

\* str.startswith(prefix)
StartsWith(s, prefix) ==
    /\ Len(prefix) <= Len(s)
    /\ SubSeq(s, 1, Len(prefix)) = prefix

\* str.split(sep) for a one-character sep: the list of the parts
RECURSIVE Split(_, _)
Split(s, sep) ==
    IF \A i \in 1..Len(s) : s[i] # sep
    THEN << s >>
    ELSE LET i == CHOOSE j \in 1..Len(s) :
                      s[j] = sep /\ \A k \in 1..(j - 1) : s[k] # sep
         IN  << SubSeq(s, 1, i - 1) >> \o Split(SubSeq(s, i + 1, Len(s)), sep)

\* sep.join(parts) for a one-character sep
RECURSIVE Join(_, _)
Join(parts, sep) ==
    IF Len(parts) = 0 THEN << >>
    ELSE IF Len(parts) = 1 THEN parts[1]
    ELSE parts[1] \o << sep >> \o Join(Tail(parts), sep)

\* dict.get(key, default) on a dict literal written as a list of
\* << key, value >> pairs: a key written twice keeps its last value
DictGet(map, key, default) ==
    LET hits == { i \in 1..Len(map) : map[i][1] = key }
    IN  IF hits = {} THEN default
        ELSE map[CHOOSE i \in hits : \A j \in hits : j <= i][2]

DictKeys(map) == { map[i][1] : i \in 1..Len(map) }

(***************************************************************************)
(* FieldDescriptorProto.Type and FieldDescriptorProto.Label                *)
(***************************************************************************)
TYPE_DOUBLE == 1
TYPE_FLOAT == 2
TYPE_INT64 == 3
TYPE_UINT64 == 4
TYPE_INT32 == 5
TYPE_FIXED64 == 6
TYPE_FIXED32 == 7
TYPE_BOOL == 8
TYPE_STRING == 9
TYPE_GROUP == 10
TYPE_MESSAGE == 11
TYPE_BYTES == 12
TYPE_UINT32 == 13
TYPE_ENUM == 14
TYPE_SFIXED32 == 15
TYPE_SFIXED64 == 16
TYPE_SINT32 == 17
TYPE_SINT64 == 18
LABEL_OPTIONAL == 1
LABEL_REQUIRED == 2
LABEL_REPEATED == 3

s_string == <<"s","t","r","i","n","g">>
s_TYPE_GROUP == <<"T","Y","P","E","_","G","R","O","U","P">>
s_TYPE_MESSAGE == <<"T","Y","P","E","_","M","E","S","S","A","G","E">>
s_TYPE_ENUM == <<"T","Y","P","E","_","E","N","U","M">>
s_LABEL_OPTIONAL == <<"L","A","B","E","L","_","O","P","T","I","O","N","A","L">>
s_LABEL_REPEATED == <<"L","A","B","E","L","_","R","E","P","E","A","T","E","D">>
s_LABEL_REQUIRED == <<"L","A","B","E","L","_","R","E","Q","U","I","R","E","D">>
s_google_protobuf == <<"g","o","o","g","l","e",".","p","r","o","t","o","b","u","f">>
s_std_msgs_String == <<"s","t","d","_","m","s","g","s","/","S","t","r","i","n","g">>
s_Header == <<"H","e","a","d","e","r">>
CONSTANT_FIELD_TYPE == <<"u","i","n","t","8">>

msg2proto_primitive_map ==
    << << <<"f","l","o","a","t","6","4">>, <<"d","o","u","b","l","e">> >>,
       << <<"f","l","o","a","t","3","2">>, <<"f","l","o","a","t">> >>,
       << <<"i","n","t","6","4">>, <<"i","n","t","6","4">> >>,
       << <<"u","i","n","t","6","4">>, <<"u","i","n","t","6","4">> >>,
       << <<"i","n","t","3","2">>, <<"i","n","t","3","2">> >>,
       << <<"u","i","n","t","3","2">>, <<"u","i","n","t","3","2">> >>,
       << <<"i","n","t","1","6">>, <<"i","n","t","3","2">> >>,
       << <<"u","i","n","t","1","6">>, <<"u","i","n","t","3","2">> >>,
       << <<"i","n","t","8">>, <<"i","n","t","3","2">> >>,
       << <<"u","i","n","t","8">>, <<"u","i","n","t","3","2">> >>,
       << <<"b","y","t","e">>, <<"u","i","n","t","3","2">> >>,
       << <<"b","o","o","l">>, <<"b","o","o","l">> >>,
       << <<"c","h","a","r">>, <<"s","t","r","i","n","g">> >>,
       << <<"s","t","r","i","n","g">>, <<"s","t","r","i","n","g">> >>,
       << <<"w","s","t","r","i","n","g">>, <<"s","t","r","i","n","g">> >> >>

msg2proto_composite_map ==
    << << <<"H","e","a","d","e","r">>, <<"s","t","d","_","m","s","g","s",".","H","e","a","d","e","r">> >>,
       << <<"b","u","i","l","t","i","n","_","i","n","t","e","r","f","a","c","e","s","/","T","i","m","e">>, <<"g","o","o","g","l","e",".","p","r","o","t","o","b","u","f",".","T","i","m","e","s","t","a","m","p">> >>,
       << <<"b","u","i","l","t","i","n","_","i","n","t","e","r","f","a","c","e","s","/","D","u","r","a","t","i","o","n">>, <<"g","o","o","g","l","e",".","p","r","o","t","o","b","u","f",".","D","u","r","a","t","i","o","n">> >>,
       << <<"s","t","d","_","m","s","g","s","/","F","l","o","a","t","6","4">>, <<"g","o","o","g","l","e",".","p","r","o","t","o","b","u","f",".","D","o","u","b","l","e","V","a","l","u","e">> >>,
       << <<"s","t","d","_","m","s","g","s","/","F","l","o","a","t","3","2">>, <<"g","o","o","g","l","e",".","p","r","o","t","o","b","u","f",".","F","l","o","a","t","V","a","l","u","e">> >>,
       << <<"s","t","d","_","m","s","g","s","/","I","n","t","6","4">>, <<"g","o","o","g","l","e",".","p","r","o","t","o","b","u","f",".","I","n","t","6","4","V","a","l","u","e">> >>,
       << <<"s","t","d","_","m","s","g","s","/","U","I","n","t","6","4">>, <<"g","o","o","g","l","e",".","p","r","o","t","o","b","u","f",".","U","I","n","t","6","4","V","a","l","u","e">> >>,
       << <<"s","t","d","_","m","s","g","s","/","I","n","t","3","2">>, <<"g","o","o","g","l","e",".","p","r","o","t","o","b","u","f",".","I","n","t","3","2","V","a","l","u","e">> >>,
       << <<"s","t","d","_","m","s","g","s","/","U","I","n","t","3","2">>, <<"g","o","o","g","l","e",".","p","r","o","t","o","b","u","f",".","U","I","n","t","3","2","V","a","l","u","e">> >>,
       << <<"s","t","d","_","m","s","g","s","/","B","o","o","l">>, <<"g","o","o","g","l","e",".","p","r","o","t","o","b","u","f",".","B","o","o","l","V","a","l","u","e">> >>,
       << <<"s","t","d","_","m","s","g","s","/","S","t","r","i","n","g">>, <<"g","o","o","g","l","e",".","p","r","o","t","o","b","u","f",".","S","t","r","i","n","g","V","a","l","u","e">> >>,
       << <<"s","t","d","_","m","s","g","s","/","S","t","r","i","n","g">>, <<"g","o","o","g","l","e",".","p","r","o","t","o","b","u","f",".","B","y","t","e","s","V","a","l","u","e">> >> >>

gen_msg_type_map ==
    << << TYPE_DOUBLE, <<"f","l","o","a","t","6","4">> >>,
       << TYPE_FLOAT, <<"f","l","o","a","t","3","2">> >>,
       << TYPE_INT64, <<"i","n","t","6","4">> >>,
       << TYPE_UINT64, <<"u","i","n","t","6","4">> >>,
       << TYPE_INT32, <<"i","n","t","3","2">> >>,
       << TYPE_FIXED64, <<"u","i","n","t","6","4">> >>,
       << TYPE_FIXED32, <<"u","i","n","t","3","2">> >>,
       << TYPE_BOOL, <<"b","o","o","l">> >>,
       << TYPE_STRING, <<"s","t","r","i","n","g">> >>,
       << TYPE_GROUP, s_TYPE_GROUP >>,
       << TYPE_MESSAGE, s_TYPE_MESSAGE >>,
       << TYPE_BYTES, <<"s","t","r","i","n","g">> >>,
       << TYPE_UINT32, <<"u","i","n","t","3","2">> >>,
       << TYPE_ENUM, s_TYPE_ENUM >>,
       << TYPE_SFIXED32, <<"i","n","t","3","2">> >>,
       << TYPE_SFIXED64, <<"i","n","t","6","4">> >>,
       << TYPE_SINT32, <<"i","n","t","3","2">> >>,
       << TYPE_SINT64, <<"i","n","t","6","4">> >> >>

gen_msg_type_name_map ==
    << << <<"g","o","o","g","l","e",".","p","r","o","t","o","b","u","f",".","T","i","m","e","s","t","a","m","p">>, <<"b","u","i","l","t","i","n","_","i","n","t","e","r","f","a","c","e","s","/","T","i","m","e">> >>,
       << <<"g","o","o","g","l","e",".","p","r","o","t","o","b","u","f",".","D","u","r","a","t","i","o","n">>, <<"b","u","i","l","t","i","n","_","i","n","t","e","r","f","a","c","e","s","/","D","u","r","a","t","i","o","n">> >>,
       << <<"g","o","o","g","l","e",".","p","r","o","t","o","b","u","f",".","E","m","p","t","y">>, <<"s","t","d","_","m","s","g","s","/","E","m","p","t","y">> >>,
       << <<"g","o","o","g","l","e",".","p","r","o","t","o","b","u","f",".","D","o","u","b","l","e","V","a","l","u","e">>, <<"s","t","d","_","m","s","g","s","/","F","l","o","a","t","6","4">> >>,
       << <<"g","o","o","g","l","e",".","p","r","o","t","o","b","u","f",".","F","l","o","a","t","V","a","l","u","e">>, <<"s","t","d","_","m","s","g","s","/","F","l","o","a","t","3","2">> >>,
       << <<"g","o","o","g","l","e",".","p","r","o","t","o","b","u","f",".","I","n","t","6","4","V","a","l","u","e">>, <<"s","t","d","_","m","s","g","s","/","I","n","t","6","4">> >>,
       << <<"g","o","o","g","l","e",".","p","r","o","t","o","b","u","f",".","U","I","n","t","6","4","V","a","l","u","e">>, <<"s","t","d","_","m","s","g","s","/","U","I","n","t","6","4">> >>,
       << <<"g","o","o","g","l","e",".","p","r","o","t","o","b","u","f",".","I","n","t","3","2","V","a","l","u","e">>, <<"s","t","d","_","m","s","g","s","/","I","n","t","3","2">> >>,
       << <<"g","o","o","g","l","e",".","p","r","o","t","o","b","u","f",".","U","I","n","t","3","2","V","a","l","u","e">>, <<"s","t","d","_","m","s","g","s","/","U","I","n","t","3","2">> >>,
       << <<"g","o","o","g","l","e",".","p","r","o","t","o","b","u","f",".","B","o","o","l","V","a","l","u","e">>, <<"s","t","d","_","m","s","g","s","/","B","o","o","l">> >>,
       << <<"g","o","o","g","l","e",".","p","r","o","t","o","b","u","f",".","S","t","r","i","n","g","V","a","l","u","e">>, <<"s","t","d","_","m","s","g","s","/","S","t","r","i","n","g">> >>,
       << <<"g","o","o","g","l","e",".","p","r","o","t","o","b","u","f",".","B","y","t","e","s","V","a","l","u","e">>, <<"s","t","d","_","m","s","g","s","/","S","t","r","i","n","g">> >> >>

ScalarKeywordKind ==
    << << <<"d","o","u","b","l","e">>, TYPE_DOUBLE >>,
       << <<"f","l","o","a","t">>, TYPE_FLOAT >>,
       << <<"i","n","t","6","4">>, TYPE_INT64 >>,
       << <<"u","i","n","t","6","4">>, TYPE_UINT64 >>,
       << <<"i","n","t","3","2">>, TYPE_INT32 >>,
       << <<"f","i","x","e","d","6","4">>, TYPE_FIXED64 >>,
       << <<"f","i","x","e","d","3","2">>, TYPE_FIXED32 >>,
       << <<"b","o","o","l">>, TYPE_BOOL >>,
       << <<"s","t","r","i","n","g">>, TYPE_STRING >>,
       << <<"b","y","t","e","s">>, TYPE_BYTES >>,
       << <<"u","i","n","t","3","2">>, TYPE_UINT32 >>,
       << <<"s","f","i","x","e","d","3","2">>, TYPE_SFIXED32 >>,
       << <<"s","f","i","x","e","d","6","4">>, TYPE_SFIXED64 >>,
       << <<"s","i","n","t","3","2">>, TYPE_SINT32 >>,
       << <<"s","i","n","t","6","4">>, TYPE_SINT64 >> >>

(***************************************************************************)
(* msg2proto.map_type: ROS type name -> proto type name                    *)
(***************************************************************************)
\* the dict literal of msg2proto.map_type, in source order (the key
\* std_msgs/String is written twice)
msg2proto_map == msg2proto_primitive_map \o msg2proto_composite_map

msg2proto_map_type(field_type) ==
    DictGet(msg2proto_map, field_type, Replace(field_type, "/", "."))

(***************************************************************************)
(* protoc_gen_msg.map_type, map_type_name, map_label                       *)
(***************************************************************************)
\* as map_type, with the TYPE_FLOAT row giving the TYPE_DOUBLE row's value
gen_msg_map_type_float_slip(field_type) ==
    IF field_type = TYPE_FLOAT THEN DictGet(gen_msg_type_map, TYPE_DOUBLE, s_string)
    ELSE DictGet(gen_msg_type_map, field_type, s_string)

gen_msg_map_type(field_type) == DictGet(gen_msg_type_map, field_type, s_string)

\* as map_type_name, with the Duration row giving the Timestamp row's value
map_type_name_duration_slip(field_type_name) ==
    IF field_type_name = gen_msg_type_name_map[2][1]
    THEN gen_msg_type_name_map[1][2]
    ELSE DictGet(gen_msg_type_name_map, field_type_name, s_std_msgs_String)

map_type_name(field_type_name) ==
    DictGet(gen_msg_type_name_map, field_type_name, s_std_msgs_String)

map_label(label_type) ==
    DictGet(<< << LABEL_OPTIONAL, s_LABEL_OPTIONAL >>,
               << LABEL_REPEATED, s_LABEL_REPEATED >>,
               << LABEL_REQUIRED, s_LABEL_REQUIRED >> >>,
            label_type, label_type)

\* protoc gives a field declared with a scalar keyword the kind of that name
ScalarKind(keyword) == DictGet(ScalarKeywordKind, keyword, 0)

(***************************************************************************)
(* The type tables, looked up there and back                               *)
(***************************************************************************)
\* largest kind number looked up (the kinds above TYPE_SINT64 are unknown)
MaxKind == 20

\* ROS type names that are in no table
UnknownMsgTypes ==
    { <<"F","o","o">>, <<"p","k","g","/","F","o","o">>,
      <<"s","t","d","_","m","s","g","s","/","E","m","p","t","y">>,
      <<"s","t","d","_","m","s","g","s","/","H","e","a","d","e","r">> }

\* proto type names that are not in map_type_name's table
UnknownProtoTypes ==
    { <<"g","o","o","g","l","e",".","p","r","o","t","o","b","u","f",".","A","n","y">>,
      <<"s","t","d","_","m","s","g","s",".","H","e","a","d","e","r">> }

TypeInputs ==
    { [dir |-> "msg", v |-> t] : t \in DictKeys(msg2proto_map) \cup UnknownMsgTypes }
    \cup { [dir |-> "proto", v |-> n] :
             n \in DictKeys(gen_msg_type_name_map) \cup UnknownProtoTypes }
    \cup { [dir |-> "kind", v |-> k] : k \in 0..MaxKind }

InitTypes ==
    /\ pc = "start"
    /\ type_input \in TypeInputs
    /\ mapped_type = << >>
    /\ back_type = << >>
    /\ parsed_msg = Unused /\ msg_name = Unused /\ package = Unused
    /\ proto = Unused
    /\ msg_files = Unused /\ file_idx = 0 /\ proto_dir = Unused
    /\ data = Unused /\ request = Unused /\ response = Unused
    /\ exit_status = Unused
    /\ hash_seed = Unused /\ returned = Unused

\* msg2proto.map_type on a ROS type name
MsgToProto ==
    /\ pc = "start" /\ type_input.dir = "msg"
    /\ mapped_type' = msg2proto_map_type(type_input.v)
    /\ pc' = "mapped"
    /\ UNCHANGED << type_input, back_type, fwdVars, driverVars, pluginVars, runVars >>

\* the proto scalar keyword read back: protoc's kind, then protoc_gen_msg.map_type
ScalarBack ==
    /\ pc = "mapped" /\ type_input.dir = "msg"
    /\ mapped_type \in DictKeys(ScalarKeywordKind)
    /\ back_type' = gen_msg_map_type(ScalarKind(mapped_type))
    /\ pc' = "done"
    /\ UNCHANGED << type_input, mapped_type, fwdVars, driverVars, pluginVars, runVars >>

\* the proto message type name read back with map_type_name
TypeNameBack ==
    /\ pc = "mapped" /\ type_input.dir = "msg"
    /\ mapped_type \notin DictKeys(ScalarKeywordKind)
    /\ back_type' = map_type_name(mapped_type)
    /\ pc' = "done"
    /\ UNCHANGED << type_input, mapped_type, fwdVars, driverVars, pluginVars, runVars >>

\* protoc_gen_msg.map_type_name on a proto type name
ProtoToMsg ==
    /\ pc = "start" /\ type_input.dir = "proto"
    /\ mapped_type' = map_type_name(type_input.v)
    /\ pc' = "mapped"
    /\ UNCHANGED << type_input, back_type, fwdVars, driverVars, pluginVars, runVars >>

\* protoc_gen_msg.map_type on a field kind
KindToMsg ==
    /\ pc = "start" /\ type_input.dir = "kind"
    /\ mapped_type' = gen_msg_map_type(type_input.v)
    /\ pc' = "mapped"
    /\ UNCHANGED << type_input, back_type, fwdVars, driverVars, pluginVars, runVars >>

\* the ROS type name mapped again with msg2proto.map_type
MsgBack ==
    /\ pc = "mapped" /\ type_input.dir \in {"proto", "kind"}
    /\ back_type' = msg2proto_map_type(mapped_type)
    /\ pc' = "done"
    /\ UNCHANGED << type_input, mapped_type, fwdVars, driverVars, pluginVars, runVars >>

NextTypes ==
    \/ MsgToProto
    \/ ScalarBack
    \/ TypeNameBack
    \/ ProtoToMsg
    \/ KindToMsg
    \/ MsgBack

SpecTypes == InitTypes /\ [][NextTypes]_vars

(***************************************************************************)
(* msg2proto.to_snake_case                                                 *)
(***************************************************************************)
DigitChars == <<"1","2","3","4","5","6","7","8","9">>
UpperAlphabet == <<"A","B","C","D","E","F","G","H","I","J","K","L","M",
                   "N","O","P","Q","R","S","T","U","V","W","X","Y","Z">>
LowerAlphabet == <<"a","b","c","d","e","f","g","h","i","j","k","l","m",
                   "n","o","p","q","r","s","t","u","v","w","x","y","z">>
Upper == { UpperAlphabet[i] : i \in 1..26 }
Lower == { LowerAlphabet[i] : i \in 1..26 }
Digit == { "0","1","2","3","4","5","6","7","8","9" }

\* str.lower()
ToLower(s) ==
    [i \in 1..Len(s) |->
        IF s[i] \in Upper
        THEN LowerAlphabet[CHOOSE k \in 1..26 : UpperAlphabet[k] = s[i]]
        ELSE s[i]]

\* end of the longest run of characters of class cls starting at position i
\* (i - 1 when s[i] is not in cls)
RunEnd(s, i, cls) ==
    CHOOSE e \in (i - 1)..Len(s) :
        /\ \A j \in i..e : s[j] \in cls
        /\ e = Len(s) \/ s[e + 1] \notin cls

\* re.sub('(.)([A-Z][a-z]+)', r'\1_\2', s), scanning from position i
RECURSIVE SubCapWord(_, _)
SubCapWord(s, i) ==
    IF i > Len(s) THEN << >>
    ELSE IF /\ i + 2 <= Len(s)
            /\ s[i] # "\n"
            /\ s[i + 1] \in Upper
            /\ s[i + 2] \in Lower
    THEN LET e == RunEnd(s, i + 2, Lower)
         IN  << s[i], "_" >> \o SubSeq(s, i + 1, e) \o SubCapWord(s, e + 1)
    ELSE << s[i] >> \o SubCapWord(s, i + 1)

\* re.sub('__([A-Z])', r'_\1', s), scanning from position i
RECURSIVE SubDoubleUnderscore(_, _)
SubDoubleUnderscore(s, i) ==
    IF i > Len(s) THEN << >>
    ELSE IF /\ i + 2 <= Len(s)
            /\ s[i] = "_" /\ s[i + 1] = "_"
            /\ s[i + 2] \in Upper
    THEN << "_", s[i + 2] >> \o SubDoubleUnderscore(s, i + 3)
    ELSE << s[i] >> \o SubDoubleUnderscore(s, i + 1)

\* re.sub('([a-z0-9])([A-Z])', r'\1_\2', s), scanning from position i
RECURSIVE SubLowerUpper(_, _)
SubLowerUpper(s, i) ==
    IF i > Len(s) THEN << >>
    ELSE IF /\ i + 1 <= Len(s)
            /\ s[i] \in Lower \cup Digit
            /\ s[i + 1] \in Upper
    THEN << s[i], "_", s[i + 1] >> \o SubLowerUpper(s, i + 2)
    ELSE << s[i] >> \o SubLowerUpper(s, i + 1)

to_snake_case(name) ==
    ToLower(SubLowerUpper(SubDoubleUnderscore(SubCapWord(name, 1), 1), 1))

(***************************************************************************)
(* msg2proto.generate_proto                                                *)
(***************************************************************************)
\* as FieldImports, without the test `typename_parts[-1] != msg_name`
FieldImports_no_recursion_test(type, typename, msg_name_, package_) ==
    IF type.is_complextype
    THEN LET parts == Split(typename, ".")
             typename_parts ==
                 IF Len(parts) = 1 THEN << package_ >> \o parts ELSE parts
             n == Len(typename_parts)
         IN  { Join([typename_parts EXCEPT ![n] = to_snake_case(@)], "/") }
    ELSE { }

\* lines 238-247: the imports one field adds. typename is the mapped name.
FieldImports(type, typename, msg_name_, package_) ==
    IF type.is_complextype
    THEN LET parts == Split(typename, ".")
             typename_parts ==
                 IF Len(parts) = 1 THEN << package_ >> \o parts ELSE parts
             n == Len(typename_parts)
         IN  IF typename_parts[n] # msg_name_
             THEN { Join([typename_parts EXCEPT ![n] = to_snake_case(@)], "/") }
             ELSE { }
    ELSE { }

\* as NextFieldNumber, with `fieldnumber += 1` also in the constant branch
NextFieldNumber_constants_too(line_type, fieldnumber) ==
    IF line_type \in {"field", "constant"} THEN fieldnumber + 1 ELSE fieldnumber

\* lines 223, 252: the field number after a line of the given type
NextFieldNumber(line_type, fieldnumber) ==
    IF line_type = "field" THEN fieldnumber + 1 ELSE fieldnumber

\* lines 230-236: the mapped type name of a field
FieldTypename(type) ==
    msg2proto_map_type(
        IF type.package # << >>
        THEN type.package \o << "/" >> \o type.typename
        ELSE type.typename)

\* lines 216-269: the text one line of the Document adds to the message body
\* (<< >> when the line type is none of the four)
MessageLine(line, fieldnumber) ==
    IF line.line_type = "emptyline" THEN << [kind |-> "blank"] >>
    ELSE IF line.line_type = "comment"
    THEN << [kind |-> "comment", comment |-> line.comment] >>
    ELSE IF line.line_type = "field"
    THEN LET type == line.type
             bound == type.arraybound
         IN  << [kind |-> "field",
                 label |-> IF type.is_array THEN "repeated" ELSE "",
                 typename |-> FieldTypename(type),
                 name |-> line.name,
                 number |-> fieldnumber,
                 comment |-> IF bound # << >>
                             THEN << "[" >> \o bound \o << "]", " " >>
                                      \o line.comment
                             ELSE line.comment] >>
    ELSE IF line.line_type = "constant"
    THEN << [kind |-> "constant", name |-> line.name, value |-> line.value,
             comment |-> line.comment] >>
    ELSE << >>

\* lines 212-270: the loop over the Document from line i on, carrying the
\* field number, the imports and the message body
RECURSIVE RenderLines(_, _, _, _, _, _, _)
RenderLines(lines, i, msg_name_, package_, fieldnumber, imports, message) ==
    IF i > Len(lines)
    THEN [fieldnumber |-> fieldnumber, imports |-> imports, message |-> message]
    ELSE LET line == lines[i]
             added == IF line.line_type = "field"
                      THEN FieldImports(line.type, FieldTypename(line.type),
                                        msg_name_, package_)
                      ELSE { }
         IN  RenderLines(lines, i + 1, msg_name_, package_,
                         NextFieldNumber(line.line_type, fieldnumber),
                         imports \cup added,
                         message \o MessageLine(line, fieldnumber))

\* all the orders in which a set can be iterated
Orders(S) ==
    { o \in [1..Cardinality(S) -> S] : \A x \in S : \E k \in DOMAIN o : o[k] = x }

\* generate_proto; set_order is the order in which `for i in imports`
\* iterates the set
generate_proto(parsed_msg_, msg_name_, package_, set_order) ==
    LET r == RenderLines(parsed_msg_, 1, msg_name_, package_, 1, { }, << >>)
    IN  [package |-> package_,
         imports |-> [k \in 1..Len(set_order) |-> set_order[k]],
         message_name |-> msg_name_,
         message |-> r.message]

generate_proto_imports(parsed_msg_, msg_name_, package_) ==
    RenderLines(parsed_msg_, 1, msg_name_, package_, 1, { }, << >>).imports

(***************************************************************************)
(* Documents handed to generate_proto                                      *)
(***************************************************************************)
\* longest Document rendered
MaxItems == 3

s_FooBar == <<"F","o","o","B","a","r">>
s_String == <<"S","t","r","i","n","g">>
s_std_msgs == <<"s","t","d","_","m","s","g","s">>
s_other == <<"o","t","h","e","r">>

\* the dicts MsgVisitor builds (visit_primitivetype, visit_complextype,
\* visit_type, visit_arrayspec); a key the visitor leaves out reads as
\* FALSE or << >>, as type.get() reads it
PrimitiveType(typename) ==
    [package |-> << >>, typename |-> typename, is_complextype |-> FALSE,
     is_array |-> FALSE, arraybound |-> << >>]
ComplexType(package_, typename) ==
    [package |-> package_, typename |-> typename, is_complextype |-> TRUE,
     is_array |-> FALSE, arraybound |-> << >>]
ArrayOf(type, arraybound) ==
    [type EXCEPT !.is_array = TRUE, !.arraybound = arraybound]

\* the line dicts MsgVisitor builds (visit_emptyline, visit_comment,
\* visit_field, visit_constant)
EmptyLine == [line_type |-> "emptyline"]
Comment(text) == [line_type |-> "comment", comment |-> text]
FieldDef(type, name, value, comment) ==
    [line_type |-> "field", type |-> type, name |-> name, value |-> value,
     comment |-> comment]
ConstantDef(type, name, value, comment) ==
    [line_type |-> "constant", type |-> type, name |-> name, value |-> value,
     comment |-> comment]

FieldTypes ==
    { PrimitiveType(<<"i","n","t","3","2">>),
      ComplexType(<< >>, s_FooBar),
      ArrayOf(ComplexType(s_std_msgs, s_FooBar), <<"<","=","3">>),
      ComplexType(s_other, s_FooBar),
      ComplexType(<< >>, s_Header),
      ComplexType(s_std_msgs, s_String) }

DocumentItems ==
    { EmptyLine,
      Comment(<<"c">>),
      ConstantDef(PrimitiveType(<<"u","i","n","t","8">>), <<"R","E","D">>,
                  <<"0">>, << >>) }
    \cup { FieldDef(t, <<"x">>, << >>, << >>) : t \in FieldTypes }

Documents ==
    UNION { [1..n -> DocumentItems] : n \in 0..MaxItems }

MsgNames == { s_FooBar, s_Header, s_String }
Packages == { << >>, s_std_msgs }

InitFwd ==
    /\ pc = "start"
    /\ parsed_msg \in Documents
    /\ msg_name \in MsgNames
    /\ package \in Packages
    /\ proto = Unused
    /\ type_input = Unused /\ mapped_type = Unused /\ back_type = Unused
    /\ msg_files = Unused /\ file_idx = 0 /\ proto_dir = Unused
    /\ data = Unused /\ request = Unused /\ response = Unused
    /\ exit_status = Unused
    /\ hash_seed = Unused /\ returned = Unused

\* one call of generate_proto(parsed_msg, msg_name, package)
GenerateProto ==
    /\ pc = "start"
    /\ \E set_order \in Orders(generate_proto_imports(parsed_msg, msg_name, package)) :
           proto' = generate_proto(parsed_msg, msg_name, package, set_order)
    /\ pc' = "done"
    /\ UNCHANGED << parsed_msg, msg_name, package, typeVars, driverVars,
                    pluginVars, runVars >>

NextFwd == GenerateProto

SpecFwd == InitFwd /\ [][NextFwd]_vars

(***************************************************************************)
(* generate_proto called twice, in one interpreter or in two              *)
(*                                                                         *)
(* `for i in imports` iterates a set of str.  The order of the iteration  *)
(* follows the hashes of the strings, which CPython draws from the hash   *)
(* seed of the interpreter (PYTHONHASHSEED, random by default): it is the *)
(* same for every call in one interpreter and may differ in another.      *)
(***************************************************************************)
\* the field types of the Documents rendered twice
RunFieldTypes ==
    { ComplexType(<< >>, s_FooBar),
      ComplexType(s_other, s_FooBar),
      ComplexType(<< >>, s_Header) }

RunDocuments ==
    UNION { [1..n -> { FieldDef(t, <<"x">>, << >>, << >>) : t \in RunFieldTypes }] :
                n \in 0..MaxItems }

\* every import a RunDocument can add in package package_
RunImports(package_) ==
    UNION { generate_proto_imports(<< FieldDef(t, <<"x">>, << >>, << >>) >>,
                                   s_String, package_) : t \in RunFieldTypes }

\* a hash seed gives every string its place in the set's table
HashSeeds(strings) ==
    { h \in [strings -> 1..Cardinality(strings)] :
          \A x, y \in strings : x # y => h[x] # h[y] }

\* the order in which `for i in S` iterates S under the seed h
SetOrder(S, h) ==
    CHOOSE o \in Orders(S) :
        \A j, k \in DOMAIN o : j < k => h[o[j]] < h[o[k]]

InitRuns ==
    /\ pc = "start"
    /\ parsed_msg \in RunDocuments
    /\ msg_name = s_String
    /\ package \in Packages
    /\ hash_seed \in HashSeeds(RunImports(package))
    /\ returned = << >>
    /\ proto = Unused
    /\ type_input = Unused /\ mapped_type = Unused /\ back_type = Unused
    /\ msg_files = Unused /\ file_idx = 0 /\ proto_dir = Unused
    /\ data = Unused /\ request = Unused /\ response = Unused
    /\ exit_status = Unused

\* one call of generate_proto(parsed_msg, msg_name, package) in the running
\* interpreter
CallGenerateProto ==
    /\ pc \in { "start", "once" }
    /\ returned' =
           Append(returned,
                  generate_proto(parsed_msg, msg_name, package,
                                 SetOrder(generate_proto_imports(parsed_msg, msg_name,
                                                                 package),
                                          hash_seed)))
    /\ pc' = IF pc = "start" THEN "once" ELSE "twice"
    /\ UNCHANGED << hash_seed, fwdVars, typeVars, driverVars, pluginVars >>

\* the tool is started again: a new interpreter, with its own hash seed
NewInterpreter ==
    /\ pc = "once"
    /\ hash_seed' \in HashSeeds(RunImports(package))
    /\ UNCHANGED << pc, returned, fwdVars, typeVars, driverVars, pluginVars >>

NextRuns ==
    \/ CallGenerateProto
    \/ NewInterpreter

SpecRuns == InitRuns /\ [][NextRuns]_vars

(***************************************************************************)
(* msg2proto.grammar and MsgVisitor                                        *)
(*                                                                         *)
(* Each rule is an operator on the text s and a position i. It gives       *)
(* [ok, end, v]: whether the rule matches at i, the position after the     *)
(* match, and what the visitor returns for the node.  Rule r of the grammar *)
(* is the operator g_r.  Sequences, ordered                                *)
(* choice (/), ?, * and ! are those of a PEG: a choice takes its first     *)
(* alternative that matches and is never revisited.                        *)
(***************************************************************************)
NoMatch == [ok |-> FALSE, end |-> 0, v |-> << >>]
Match(end, v) == [ok |-> TRUE, end |-> end, v |-> v]

\* a node x of a sequence, handed to the rest F of the sequence; x is
\* written, and so accounted for, once however often F reads it
Bind(x, F(_)) == F(x)

\* ordered choice a / b
OrElse(a, b) == IF a.ok THEN a ELSE b

\* whether the characters of lit stand at position i
LiteralAt(s, i, lit) ==
    /\ i + Len(lit) - 1 <= Len(s)
    /\ SubSeq(s, i, i + Len(lit) - 1) = lit

\* a regex cls+ : one or more characters of the class
ClassPlus(s, i, cls) ==
    Bind(RunEnd(s, i, cls), LAMBDA e :
        IF e >= i THEN Match(e + 1, SubSeq(s, i, e)) ELSE NoMatch)

\* a regex first rest* : one character of first, then any of rest
FirstRest(s, i, first, rest) ==
    IF i <= Len(s) /\ s[i] \in first
    THEN Bind(RunEnd(s, i + 1, rest), LAMBDA e : Match(e + 1, SubSeq(s, i, e)))
    ELSE NoMatch

\* the position of the first character of class cls at or after i
\* (Len(s) + 1 when there is none)
Find(s, i, cls) ==
    CHOOSE e \in i..(Len(s) + 1) :
        /\ \A j \in i..(e - 1) : s[j] \notin cls
        /\ e = Len(s) + 1 \/ s[e] \in cls

WordChar == Upper \cup Lower \cup Digit \cup { "_" }

\* SP = ~r"[ \t]*" : the position after the blanks
g_SP(s, i) == RunEnd(s, i, { " ", "\t" }) + 1

\* EOL = ~r"[\n\r]"
g_EOL(s, i) ==
    IF i <= Len(s) /\ s[i] \in { "\n", "\r" } THEN Match(i + 1, << >>) ELSE NoMatch

\* text = ~r".*" : up to the next "\n"
g_text(s, i) ==
    Bind(Find(s, i, { "\n" }), LAMBDA e : Match(e, SubSeq(s, i, e - 1)))

\* comment = "#"+ SP text ; visit_comment
g_comment(s, i) ==
    Bind(ClassPlus(s, i, { "#" }), LAMBDA hashes :
        IF hashes.ok THEN g_text(s, g_SP(s, hashes.end)) ELSE NoMatch)

\* numericval = ~r"[-+\.bBoOxX\d]+"
g_numericval(s, i) ==
    ClassPlus(s, i, { "-", "+", ".", "b", "B", "o", "O", "x", "X" } \cup Digit)

\* boolval = ~r"[Tt]rue" / ~r"[Ff]alse"
g_boolval(s, i) ==
    IF i <= Len(s) /\ s[i] \in { "T", "t" } /\ LiteralAt(s, i + 1, <<"r","u","e">>)
    THEN Match(i + 4, SubSeq(s, i, i + 3))
    ELSE IF i <= Len(s) /\ s[i] \in { "F", "f" }
            /\ LiteralAt(s, i + 1, <<"a","l","s","e">>)
    THEN Match(i + 5, SubSeq(s, i, i + 4))
    ELSE NoMatch

\* ~r"[a-z]?Q[^Q]*Q" for a quote character Q
Quoted(s, i, quote) ==
    Bind(IF i + 1 <= Len(s) /\ s[i] \in Lower /\ s[i + 1] = quote
         THEN i + 1 ELSE i, LAMBDA open :
        IF open <= Len(s) /\ s[open] = quote
        THEN Bind(Find(s, open + 1, { quote }), LAMBDA close :
                 IF close <= Len(s)
                 THEN Match(close + 1, SubSeq(s, i, close))
                 ELSE NoMatch)
        ELSE NoMatch)

\* stringval = ~r"[a-z]?\"[^\"]*\"" / ~r"[a-z]?\'[^\']*\'"
g_stringval(s, i) == OrElse(Quoted(s, i, "\""), Quoted(s, i, "'"))

\* arrayval = ~r"\[[^\]]*\]"
g_arrayval(s, i) ==
    IF i <= Len(s) /\ s[i] = "["
    THEN Bind(Find(s, i + 1, { "]" }), LAMBDA close :
             IF close <= Len(s)
             THEN Match(close + 1, SubSeq(s, i, close))
             ELSE NoMatch)
    ELSE NoMatch

\* value = numericval / boolval / stringval / arrayval ; visit_value
g_value(s, i) ==
    OrElse(g_numericval(s, i),
           OrElse(g_boolval(s, i), OrElse(g_stringval(s, i), g_arrayval(s, i))))

\* msgname = ~r"[A-Z]\w*"
g_msgname(s, i) == FirstRest(s, i, Upper, WordChar)
\* packagename = ~r"[a-z][a-z_]*"
g_packagename(s, i) == FirstRest(s, i, Lower, Lower \cup { "_" })
\* fieldname = ~r"[a-z][a-z\d_]*"
g_fieldname(s, i) == FirstRest(s, i, Lower, Lower \cup Digit \cup { "_" })
\* constname = ~r"[A-Z][A-Z\d_]*"
g_constname(s, i) == FirstRest(s, i, Upper, Upper \cup Digit \cup { "_" })

\* (packagename "/")? : the package and the position after it
OptionalPackage(s, i) ==
    Bind(g_packagename(s, i), LAMBDA pk :
        IF pk.ok /\ LiteralAt(s, pk.end, << "/" >>)
        THEN Match(pk.end + 1, pk.v)
        ELSE Match(i, << >>))

\* complextype = (packagename "/")? msgname ; visit_complextype
g_complextype(s, i) ==
    Bind(OptionalPackage(s, i), LAMBDA pk :
    Bind(g_msgname(s, pk.end), LAMBDA name :
        IF name.ok
        THEN Match(name.end,
                   [package |-> pk.v, typename |-> name.v, is_complextype |-> TRUE])
        ELSE NoMatch))

\* stringbound = ~r"<=\d+"
g_stringbound(s, i) ==
    IF LiteralAt(s, i, << "<", "=" >>) THEN ClassPlus(s, i + 2, Digit) ELSE NoMatch

\* stringtype = "string" stringbound? ; visit_stringtype
g_stringtype(s, i) ==
    IF LiteralAt(s, i, s_string)
    THEN Bind(g_stringbound(s, i + 6), LAMBDA b :
             Match(IF b.ok THEN b.end ELSE i + 6,
                   [package |-> << >>, typename |-> s_string,
                    is_complextype |-> FALSE]))
    ELSE NoMatch

\* primitivetype = ~r"[a-z0-9]+" ; visit_primitivetype
g_primitivetype(s, i) ==
    Bind(ClassPlus(s, i, Lower \cup Digit), LAMBDA m :
        IF m.ok
        THEN Match(m.end, [package |-> << >>, typename |-> m.v,
                           is_complextype |-> FALSE])
        ELSE NoMatch)

\* basetype = complextype / stringtype / primitivetype
g_basetype(s, i) ==
    OrElse(g_complextype(s, i), OrElse(g_stringtype(s, i), g_primitivetype(s, i)))

\* arraybound = ~r"(<=)?\d+"
g_arraybound(s, i) ==
    OrElse(Bind(g_stringbound(s, i), LAMBDA b :
               IF b.ok THEN Match(b.end, << "<", "=" >> \o b.v) ELSE NoMatch),
           ClassPlus(s, i, Digit))

\* arrayspec = "[" arraybound? "]" ; visit_arrayspec
g_arrayspec(s, i) ==
    IF LiteralAt(s, i, << "[" >>)
    THEN Bind(OrElse(g_arraybound(s, i + 1), Match(i + 1, << >>)), LAMBDA b :
             IF LiteralAt(s, b.end, << "]" >>)
             THEN Match(b.end + 1, b.v)
             ELSE NoMatch)
    ELSE NoMatch

\* type = basetype arrayspec? ; visit_type
g_type(s, i) ==
    Bind(g_basetype(s, i), LAMBDA b :
        IF b.ok
        THEN Bind(g_arrayspec(s, b.end), LAMBDA a :
                 Match(IF a.ok THEN a.end ELSE b.end,
                       [package |-> b.v.package, typename |-> b.v.typename,
                        is_complextype |-> b.v.is_complextype,
                        is_array |-> a.ok,
                        arraybound |-> IF a.ok THEN a.v ELSE << >>]))
        ELSE NoMatch)

\* SP comment? at position i: the end and the comment text
TrailingComment(s, i) ==
    Bind(g_SP(s, i), LAMBDA j : OrElse(g_comment(s, j), Match(j, << >>)))

\* value? at position i
OptionalValue(s, i) == OrElse(g_value(s, i), Match(i, << >>))

\* field = type SP fieldname SP !"=" value? SP comment? ; visit_field
g_field(s, i) ==
    Bind(g_type(s, i), LAMBDA t :
        IF ~t.ok THEN NoMatch ELSE
    Bind(g_fieldname(s, g_SP(s, t.end)), LAMBDA n :
        IF ~n.ok THEN NoMatch ELSE
    Bind(g_SP(s, n.end), LAMBDA j :
        IF LiteralAt(s, j, << "=" >>) THEN NoMatch ELSE
    Bind(OptionalValue(s, j), LAMBDA val :
    Bind(TrailingComment(s, val.end), LAMBDA c :
        Match(c.end, FieldDef(t.v, n.v, val.v, c.v)))))))

\* constant = type SP constname SP "=" SP value SP comment? ; visit_constant
g_constant(s, i) ==
    Bind(g_type(s, i), LAMBDA t :
        IF ~t.ok THEN NoMatch ELSE
    Bind(g_constname(s, g_SP(s, t.end)), LAMBDA n :
        IF ~n.ok THEN NoMatch ELSE
    Bind(g_SP(s, n.end), LAMBDA j :
        IF ~LiteralAt(s, j, << "=" >>) THEN NoMatch ELSE
    Bind(g_value(s, g_SP(s, j + 1)), LAMBDA val :
        IF ~val.ok THEN NoMatch ELSE
    Bind(TrailingComment(s, val.end), LAMBDA c :
        Match(c.end, ConstantDef(t.v, n.v, val.v, c.v)))))))

\* definition = constant / field
g_definition(s, i) == OrElse(g_constant(s, i), g_field(s, i))

\* emptyline = SP EOL ; visit_emptyline
g_emptyline(s, i) ==
    Bind(g_EOL(s, g_SP(s, i)), LAMBDA e :
        IF e.ok THEN Match(e.end, EmptyLine) ELSE NoMatch)

\* (comment / definition)? at position i, as visit_line returns it
LinePayload(s, i) ==
    OrElse(Bind(g_comment(s, i), LAMBDA c :
               IF c.ok THEN Match(c.end, Comment(c.v)) ELSE NoMatch),
           OrElse(g_definition(s, i), Match(i, [line_type |-> ""])))

\* line = SP (comment / definition)? SP EOL ; visit_line
g_line(s, i) ==
    Bind(LinePayload(s, g_SP(s, i)), LAMBDA payload :
    Bind(g_EOL(s, g_SP(s, payload.end)), LAMBDA e :
        IF e.ok THEN Match(e.end, payload.v) ELSE NoMatch))

\* msg = (emptyline / line)* ; visit_msg. The items matched from position
\* i on are appended to output.
RECURSIVE g_msg(_, _, _)
g_msg(s, i, output) ==
    Bind(OrElse(g_emptyline(s, i), g_line(s, i)), LAMBDA m :
        IF i <= Len(s) /\ m.ok
        THEN g_msg(s, m.end, Append(output, m.v))
        ELSE Match(i, output))

\* Python's None, and a value that is not None
None == [is_none |-> TRUE, value |-> << >>]
Some(v) == [is_none |-> FALSE, value |-> v]
\* `if x:` for x a list or None
Truthy(x) == ~x.is_none /\ x.value # << >>

\* as parse_msg, visiting whatever prefix of the text the grammar matches
\* (grammar.match in place of grammar.parse)
parse_msg_prefix(msg_) == Some(g_msg(msg_, 1, << >>).v)

\* parse_msg: grammar.parse raises ParseError unless the whole text matches
parse_msg(msg_) ==
    LET tree == g_msg(msg_, 1, << >>)
    IN  IF tree.end = Len(msg_) + 1 THEN Some(tree.v) ELSE None

(***************************************************************************)
(* msg2proto.parse_msg on one text                                         *)
(***************************************************************************)
\* most lines of a msg text
MaxLines == 2

\* text[1] \o text[2] \o ... for a list of texts
RECURSIVE Concat(_)
Concat(texts) ==
    IF texts = << >> THEN << >> ELSE Head(texts) \o Concat(Tail(texts))

\* what stands on a line: nothing, a comment, a field, a constant, and
\* `1 B`, which is no line of the grammar
LineBodies ==
    { << >>,
      << "#", "c" >>,
      << "i", " ", "x" >>,
      << "u", "8", " ", "R", "=", "0" >>,
      << "1", " ", "B" >> }
LineEnds == { << "\n" >>, << "\r", "\n" >>, << "\r" >> }
ParseLines == { b \o e : b \in LineBodies, e \in LineEnds }

\* the texts of at most MaxLines of the given lines
Texts(lines) == { Concat(ls) : ls \in UNION { [1..n -> lines] : n \in 0..MaxLines } }

InitParse ==
    /\ pc = "start"
    /\ msg_files \in { << t >> : t \in Texts(ParseLines) }
    /\ parsed_msg = Unused
    /\ msg_name = Unused /\ package = Unused /\ proto = Unused
    /\ file_idx = 0 /\ proto_dir = Unused
    /\ type_input = Unused /\ mapped_type = Unused /\ back_type = Unused
    /\ data = Unused /\ request = Unused /\ response = Unused
    /\ exit_status = Unused
    /\ hash_seed = Unused /\ returned = Unused

\* one call of parse_msg(msg)
ParseMsg ==
    /\ pc = "start"
    /\ parsed_msg' = parse_msg(msg_files[1])
    /\ pc' = "done"
    /\ UNCHANGED << msg_name, package, proto, typeVars, driverVars, pluginVars, runVars >>

NextParse == ParseMsg

SpecParse == InitParse /\ [][NextParse]_vars

(***************************************************************************)
(* msg2proto.main and convert_msg_file                                     *)
(***************************************************************************)
\* most msg files in msg_dir
MaxFiles == 2

\* the lines of the msg files: a field, and `1 B`, no line of the grammar
DriverLines == { << "i", " ", "x", "\n" >>, << "1", " ", "B", "\n" >> }

\* the stem of the k-th msg file
MsgName(k) == << "M", DigitChars[k] >>

\* line 291: proto_dir / package / f"{to_snake_case(msg_name)}.proto"
ProtoFile(package_, msg_name_) ==
    package_ \o << "/" >> \o to_snake_case(msg_name_)
        \o << ".", "p", "r", "o", "t", "o" >>

\* Path.write_text: the file is created or replaced
WriteText(dir, path, content) ==
    { f \in dir : f.path # path } \cup { [path |-> path, text |-> content] }

InitDriver ==
    /\ pc = "start"
    /\ msg_files \in UNION { [1..n -> Texts(DriverLines)] : n \in 0..MaxFiles }
    /\ package \in Packages
    /\ file_idx = 0
    /\ proto_dir = { }
    /\ parsed_msg = Unused /\ msg_name = Unused /\ proto = Unused
    /\ type_input = Unused /\ mapped_type = Unused /\ back_type = Unused
    /\ data = Unused /\ request = Unused /\ response = Unused
    /\ exit_status = Unused
    /\ hash_seed = Unused /\ returned = Unused

\* lines 358-360: one turn of the loop over msg_files, convert_msg_file
ConvertMsgFile ==
    /\ pc = "start"
    /\ file_idx < Len(msg_files)
    /\ LET k == file_idx + 1
           name == MsgName(k)
           parsed == parse_msg(msg_files[k])
       IN  /\ IF Truthy(parsed)
              THEN \E set_order \in
                       Orders(generate_proto_imports(parsed.value, name, package)) :
                     proto_dir' =
                         WriteText(proto_dir, ProtoFile(package, name),
                                   generate_proto(parsed.value, name, package, set_order))
              ELSE proto_dir' = proto_dir
           /\ msg_name' = name
           /\ parsed_msg' = parsed
           /\ file_idx' = k
    /\ UNCHANGED << pc, msg_files, package, proto, typeVars, pluginVars, runVars >>

\* the loop is over: main returns
MainReturns ==
    /\ pc = "start"
    /\ file_idx = Len(msg_files)
    /\ pc' = "done"
    /\ UNCHANGED << msg_files, file_idx, proto_dir, fwdVars, typeVars, pluginVars, runVars >>

NextDriver ==
    \/ ConvertMsgFile
    \/ MainReturns

SpecDriver == InitDriver /\ [][NextDriver]_vars

(***************************************************************************)
(* protoc_gen_msg: generate_message, generate_enum, generate_msg_file,     *)
(* collect_enums, generate_msg_files                                       *)
(*                                                                         *)
(* The text of a msg file is kept as the list of its lines, each with the  *)
(* pieces the f-string puts on it.                                         *)
(***************************************************************************)
Last(seq) == seq[Len(seq)]

\* lines 89-114: the output line of one field
FieldLine(field, package_) ==
    LET mapped_field_type == gen_msg_map_type(field.type)
        typed ==
            IF mapped_field_type = s_TYPE_MESSAGE
            THEN LET type_name == field.type_name
                     local == IF Split(type_name, ".")[2] = package_
                              THEN Last(Split(type_name, "."))
                              ELSE Tail(type_name)
                     known == IF StartsWith(local, s_google_protobuf)
                              THEN map_type_name(local)
                              ELSE local
                 IN  [fieldtype |-> Replace(known, ".", "/"),
                      fieldcomment |-> << >>]
            ELSE IF mapped_field_type = s_TYPE_ENUM
            THEN [fieldtype |-> CONSTANT_FIELD_TYPE,
                  fieldcomment |-> << "#", " " >> \o Last(Split(field.type_name, "."))]
            ELSE [fieldtype |-> mapped_field_type, fieldcomment |-> << >>]
    IN  [kind |-> "field",
         fieldtype |-> IF map_label(field.label) = s_LABEL_REPEATED
                       THEN typed.fieldtype \o << "[", "]" >>
                       ELSE typed.fieldtype,
         fieldname |-> field.name,
         fieldcomment |-> typed.fieldcomment]

\* lines 103-106: the enum names the fields of a message refer to
ReferencedEnums(message) ==
    { Last(Split(message.field[i].type_name, ".")) :
        i \in { j \in 1..Len(message.field) :
                  gen_msg_map_type(message.field[j].type) = s_TYPE_ENUM } }

generate_message(message, package_) ==
    [output |-> << [kind |-> "generated"], [kind |-> "blank"],
                   [kind |-> "message_name", name |-> message.name] >>
                \o [i \in 1..Len(message.field) |->
                       FieldLine(message.field[i], package_)],
     referenced_enums |-> ReferencedEnums(message),
     errors |-> << >>]

generate_enum(enum) ==
    << [kind |-> "blank"], [kind |-> "enum_name", name |-> enum.name] >>
    \o [i \in 1..Len(enum.value) |->
           [kind |-> "constant", type |-> CONSTANT_FIELD_TYPE,
            name |-> enum.value[i].name, number |-> enum.value[i].number]]

\* lines 66-70: the loop over enums from index i on
RECURSIVE AddReferencedEnums(_, _, _, _)
AddReferencedEnums(enums, i, output, referenced_enums) ==
    IF i > Len(enums) THEN output
    ELSE IF enums[i].name \in referenced_enums
    THEN AddReferencedEnums(enums, i + 1, output \o generate_enum(enums[i]),
                            referenced_enums \ { enums[i].name })
    ELSE AddReferencedEnums(enums, i + 1, output, referenced_enums)

\* generate_msg_file: the response after the message is rendered
generate_msg_file(message, package_, enums, response_) ==
    LET g == generate_message(message, package_)
        output == AddReferencedEnums(enums, 1, g.output, g.referenced_enums)
    IN  IF g.errors # << >>
        THEN [response_ EXCEPT !.error = g.errors]
        ELSE [response_ EXCEPT !.file =
                 @ \o << [name |-> package_ \o << "/" >> \o message.name
                                     \o << ".", "m", "s", "g" >>,
                          content |-> output] >>]

\* collect_enums: proto_file.enum_type, extended in place with the enums
\* of the top-level messages
RECURSIVE NestedEnums(_, _)
NestedEnums(message_type, i) ==
    IF i > Len(message_type) THEN << >>
    ELSE message_type[i].enum_type \o NestedEnums(message_type, i + 1)

collect_enums(proto_file) ==
    proto_file.enum_type \o NestedEnums(proto_file.message_type, 1)

\* lines 46-49: the loop over message.nested_type from index j on
RECURSIVE NestedMsgFiles(_, _, _, _, _)
NestedMsgFiles(nested_type, j, package_, enums, response_) ==
    IF j > Len(nested_type) THEN response_
    ELSE NestedMsgFiles(nested_type, j + 1, package_, enums,
                        generate_msg_file(nested_type[j], package_, enums, response_))

\* lines 43-49: the loop over proto_file.message_type from index i on
RECURSIVE TopMsgFiles(_, _, _, _, _)
TopMsgFiles(message_type, i, package_, enums, response_) ==
    IF i > Len(message_type) THEN response_
    ELSE TopMsgFiles(message_type, i + 1, package_, enums,
             NestedMsgFiles(message_type[i].nested_type, 1, package_, enums,
                 generate_msg_file(message_type[i], package_, enums, response_)))

generate_msg_files(proto_file, response_) ==
    TopMsgFiles(proto_file.message_type, 1, proto_file.package,
                collect_enums(proto_file), response_)

\* generate_code: request.proto_file is not empty
generate_code(request_, response_) ==
    generate_msg_files(Last(request_.proto_file), response_)

\* plugin.CodeGeneratorResponse()
EmptyResponse == [file |-> << >>, error |-> << >>]

(***************************************************************************)
(* CodeGeneratorRequests handed to the plugin                              *)
(***************************************************************************)
\* most fields of one message that refer to the enum E
MaxRefs == 2
\* deepest nesting of messages below the top-level message M
MaxDepth == 2

s_M == <<"M">>
s_B == <<"B">>
s_E == <<"E">>
\* M at level 0, N1 inside M, N2 inside N1, ...
LevelName(k) == IF k = 0 THEN s_M ELSE << "N", DigitChars[k] >>

Field(name, type, type_name, label) ==
    [name |-> name, type |-> type, type_name |-> type_name, label |-> label]

TheEnum ==
    [name |-> s_E,
     value |-> << [name |-> <<"O","K">>, number |-> 0],
                  [name |-> <<"E","R","R">>, number |-> 1] >>]

\* fully qualified name of the scope at level k: .pkg, .pkg.M, .pkg.M.N1, ...
RECURSIVE ScopeName(_, _)
ScopeName(pkg, k) ==
    IF k = 0 THEN << "." >> \o pkg
    ELSE ScopeName(pkg, k - 1) \o << "." >> \o LevelName(k - 1)

\* A schema file is described by
\*   pkg      its package
\*   tops     the number of top-level messages (M, then B)
\*   depth    the nesting below M
\*   enum_at  the scope that declares E: -1 none (E is imported from
\*            package q), 0 the file, k > 0 the message at level k - 1
\*   refs     the number of fields of type E
\*   ref_in   the level of the message holding those fields
\*   extra    one more kind of field of M
EnumTypeName(p) ==
    IF p.enum_at < 0 THEN << ".", "q", ".", "E" >>
    ELSE ScopeName(p.pkg, p.enum_at) \o << "." >> \o s_E

ExtraField(p) ==
    IF p.extra = "same_package"
    THEN << Field(<<"h">>, TYPE_MESSAGE, << "." >> \o p.pkg \o << "." >> \o s_B,
                  LABEL_OPTIONAL) >>
    ELSE IF p.extra = "other_package"
    THEN << Field(<<"o">>, TYPE_MESSAGE, << ".", "q", ".", "r", ".", "O" >>,
                  LABEL_REPEATED) >>
    ELSE IF p.extra = "well_known"
    THEN << Field(<<"t">>, TYPE_MESSAGE,
                  << "." >> \o s_google_protobuf \o << ".", "T", "i", "m", "e", "s", "t", "a", "m", "p" >>,
                  LABEL_OPTIONAL) >>
    ELSE IF p.extra = "group"
    THEN << Field(<<"g">>, TYPE_GROUP, << >>, LABEL_OPTIONAL) >>
    ELSE IF p.extra = "scalar"
    THEN << Field(<<"i">>, TYPE_INT32, << >>, LABEL_REPEATED) >>
    ELSE << >>

EnumFields(p, k) ==
    IF p.ref_in = k
    THEN [i \in 1..p.refs |->
             Field(<< "e", DigitChars[i] >>, TYPE_ENUM, EnumTypeName(p), LABEL_OPTIONAL)]
    ELSE << >>

RECURSIVE MessageAt(_, _)
MessageAt(p, k) ==
    [name |-> LevelName(k),
     field |-> (IF k = 0 THEN ExtraField(p) ELSE << >>) \o EnumFields(p, k),
     enum_type |-> IF p.enum_at = k + 1 THEN << TheEnum >> ELSE << >>,
     nested_type |-> IF k < p.depth THEN << MessageAt(p, k + 1) >> ELSE << >>]

MessageB ==
    [name |-> s_B,
     field |-> << Field(<<"n">>, TYPE_UINT32, << >>, LABEL_OPTIONAL) >>,
     enum_type |-> << >>,
     nested_type |-> << >>]

SchemaFile(p) ==
    [name |-> <<"f">>,
     package |-> p.pkg,
     enum_type |-> IF p.enum_at = 0 THEN << TheEnum >> ELSE << >>,
     message_type |-> IF p.tops = 0 THEN << >>
                      ELSE IF p.tops = 1 THEN << MessageAt(p, 0) >>
                      ELSE << MessageAt(p, 0), MessageB >>]

SchemaParams ==
    { p \in [pkg : { <<"p">>, <<"a", ".", "b">> },
             tops : 0..2,
             depth : 0..MaxDepth,
             enum_at : -1..2,
             refs : 0..MaxRefs,
             ref_in : 0..1,
             extra : { "none", "same_package", "other_package", "well_known",
                       "group", "scalar" }] :
        /\ p.enum_at <= p.depth + 1
        /\ p.ref_in <= p.depth
        /\ (p.refs = 0 => p.ref_in = 0)
        /\ (p.tops = 0 =>
              p.depth = 0 /\ p.refs = 0 /\ p.extra = "none" /\ p.enum_at <= 0) }

SchemaFiles == { SchemaFile(p) : p \in SchemaParams }

\* the files protoc lists before the requested one: its imports
ImportedFiles ==
    { [name |-> <<"d">>, package |-> <<"q">>, enum_type |-> << TheEnum >>,
       message_type |-> << [name |-> <<"O">>, field |-> << >>,
                            enum_type |-> << >>, nested_type |-> << >>] >>] }

\* decodable: whether request.ParseFromString(data) accepts the bytes
Requests ==
    { [decodable |-> FALSE, proto_file |-> << >>],
      [decodable |-> TRUE, proto_file |-> << >>] }
    \cup { [decodable |-> TRUE, proto_file |-> << f >>] : f \in SchemaFiles }
    \cup { [decodable |-> TRUE, proto_file |-> << d, f >>] :
             d \in ImportedFiles, f \in SchemaFiles }

(***************************************************************************)
(* protoc_gen_msg.main                                                     *)
(***************************************************************************)
InitPlugin ==
    /\ pc = "start"
    /\ data \in Requests
    /\ request = Unused
    /\ response = Unused
    /\ exit_status = "running"
    /\ hash_seed = Unused /\ returned = Unused
    /\ type_input = Unused /\ mapped_type = Unused /\ back_type = Unused
    /\ parsed_msg = Unused /\ msg_name = Unused /\ package = Unused
    /\ proto = Unused
    /\ msg_files = Unused /\ file_idx = 0 /\ proto_dir = Unused

\* line 185: ParseFromString raises DecodeError, which nothing catches
MainDecodeError ==
    /\ pc = "start"
    /\ ~data.decodable
    /\ exit_status' = "uncaught_exception"
    /\ pc' = "done"
    /\ UNCHANGED << data, request, response, typeVars, fwdVars, driverVars, runVars >>

\* line 37: request.proto_file[-1] raises IndexError, which nothing catches
MainIndexError ==
    /\ pc = "start"
    /\ data.decodable
    /\ data.proto_file = << >>
    /\ request' = [proto_file |-> << >>]
    /\ response' = EmptyResponse
    /\ exit_status' = "uncaught_exception"
    /\ pc' = "done"
    /\ UNCHANGED << data, typeVars, fwdVars, driverVars, runVars >>

\* lines 181-197: the response is generated, serialised and written;
\* collect_enums has extended the enum_type of the parsed file in place
MainWritesResponse ==
    /\ pc = "start"
    /\ data.decodable
    /\ data.proto_file # << >>
    /\ response' = generate_code([proto_file |-> data.proto_file], EmptyResponse)
    /\ request' = [proto_file |->
                      [data.proto_file EXCEPT
                         ![Len(data.proto_file)].enum_type =
                             collect_enums(Last(data.proto_file))]]
    /\ exit_status' = "exit_0"
    /\ pc' = "done"
    /\ UNCHANGED << data, typeVars, fwdVars, driverVars, runVars >>

NextPlugin ==
    \/ MainDecodeError
    \/ MainIndexError
    \/ MainWritesResponse

SpecPlugin == InitPlugin /\ [][NextPlugin]_vars

(***************************************************************************)
(* protoc_gen_json                                                         *)
(***************************************************************************)
gen_json_type_map ==
    << << TYPE_DOUBLE, <<"T","Y","P","E","_","D","O","U","B","L","E">> >>,
       << TYPE_FLOAT, <<"T","Y","P","E","_","F","L","O","A","T">> >>,
       << TYPE_INT64, <<"T","Y","P","E","_","I","N","T","6","4">> >>,
       << TYPE_UINT64, <<"T","Y","P","E","_","U","I","N","T","6","4">> >>,
       << TYPE_INT32, <<"T","Y","P","E","_","I","N","T","3","2">> >>,
       << TYPE_FIXED64, <<"T","Y","P","E","_","F","I","X","E","D","6","4">> >>,
       << TYPE_FIXED32, <<"T","Y","P","E","_","F","I","X","E","D","3","2">> >>,
       << TYPE_BOOL, <<"T","Y","P","E","_","B","O","O","L">> >>,
       << TYPE_STRING, <<"T","Y","P","E","_","S","T","R","I","N","G">> >>,
       << TYPE_GROUP, s_TYPE_GROUP >>,
       << TYPE_MESSAGE, s_TYPE_MESSAGE >>,
       << TYPE_BYTES, <<"T","Y","P","E","_","B","Y","T","E","S">> >>,
       << TYPE_UINT32, <<"T","Y","P","E","_","U","I","N","T","3","2">> >>,
       << TYPE_ENUM, s_TYPE_ENUM >>,
       << TYPE_SFIXED32, <<"T","Y","P","E","_","S","F","I","X","E","D","3","2">> >>,
       << TYPE_SFIXED64, <<"T","Y","P","E","_","S","F","I","X","E","D","6","4">> >>,
       << TYPE_SINT32, <<"T","Y","P","E","_","S","I","N","T","3","2">> >>,
       << TYPE_SINT64, <<"T","Y","P","E","_","S","I","N","T","6","4">> >> >>

gen_json_map_type(field_type) == DictGet(gen_json_type_map, field_type, field_type)

gen_json_map_label(label_type) ==
    DictGet(<< << LABEL_OPTIONAL, s_LABEL_OPTIONAL >>,
               << LABEL_REPEATED, s_LABEL_REPEATED >>,
               << LABEL_REQUIRED, s_LABEL_REQUIRED >> >>,
            label_type, label_type)

\* isinstance(item, DescriptorProto): a message, not an enum
IsDescriptorProto(item) == "nested_type" \in DOMAIN item

\* lines 15-24: what _traverse yields for one item of items
TraverseItem(package_, item) ==
    << << item, package_ >> >>
    \o (IF IsDescriptorProto(item)
        THEN [i \in 1..Len(item.enum_type) |-> << item.enum_type[i], package_ >>]
             \o [i \in 1..Len(item.nested_type) |->
                    << item.nested_type[i], package_ \o << "." >> \o item.name >>]
        ELSE << >>)

\* lines 13-24: the (item, package) pairs the generator yields, in order
_traverse(package_, items) ==
    Concat([i \in 1..Len(items) |-> TraverseItem(package_, items[i])])

\* traverse: the chain of the walk of the enums and the walk of the messages
traverse(proto_file) ==
    _traverse(proto_file.package, proto_file.enum_type)
    \o _traverse(proto_file.package, proto_file.message_type)

s_root == <<"&","l","t",";","r","o","o","t","&","g","t",";">>

\* lines 40-66: the dict appended to output for one yielded pair (the field
\* numbers are not part of the requests modelled)
ItemData(proto_file, item, package_) ==
    IF IsDescriptorProto(item)
    THEN [package |-> IF package_ # << >> THEN package_ ELSE s_root,
          filename |-> proto_file.name,
          name |-> item.name,
          type |-> "Message",
          properties |->
              [i \in 1..Len(item.field) |->
                  [name |-> item.field[i].name,
                   label |-> gen_json_map_label(item.field[i].label),
                   type |-> gen_json_map_type(item.field[i].type),
                   type_name |-> SubSeq(item.field[i].type_name, 2,
                                        Len(item.field[i].type_name))]]]
    ELSE [package |-> IF package_ # << >> THEN package_ ELSE s_root,
          filename |-> proto_file.name,
          name |-> item.name,
          type |-> "Enum",
          values |-> [i \in 1..Len(item.value) |->
                         [name |-> item.value[i].name,
                          value |-> item.value[i].number]]]

\* lines 35-71: the response file of one proto_file; content is the list
\* that json.dumps writes
JsonFile(proto_file) ==
    [name |-> proto_file.name \o << ".", "j", "s", "o", "n" >>,
     content |-> [k \in 1..Len(traverse(proto_file)) |->
                     ItemData(proto_file, traverse(proto_file)[k][1],
                              traverse(proto_file)[k][2])]]

\* protoc_gen_json.generate_code: one response file per file of the request
gen_json_generate_code(request_, response_) ==
    [response_ EXCEPT !.file =
        @ \o [k \in 1..Len(request_.proto_file) |-> JsonFile(request_.proto_file[k])]]

InitJson ==
    /\ pc = "start"
    /\ data \in Requests
    /\ request = Unused
    /\ response = Unused
    /\ exit_status = "running"
    /\ hash_seed = Unused /\ returned = Unused
    /\ type_input = Unused /\ mapped_type = Unused /\ back_type = Unused
    /\ parsed_msg = Unused /\ msg_name = Unused /\ package = Unused
    /\ proto = Unused
    /\ msg_files = Unused /\ file_idx = 0 /\ proto_dir = Unused

\* line 116: ParseFromString raises DecodeError, which nothing catches
JsonDecodeError ==
    /\ pc = "start"
    /\ ~data.decodable
    /\ exit_status' = "uncaught_exception"
    /\ pc' = "done"
    /\ UNCHANGED << data, request, response, typeVars, fwdVars, driverVars, runVars >>

\* lines 110-128: the response is generated, serialised and written
JsonWritesResponse ==
    /\ pc = "start"
    /\ data.decodable
    /\ request' = [proto_file |-> data.proto_file]
    /\ response' = gen_json_generate_code([proto_file |-> data.proto_file],
                                          EmptyResponse)
    /\ exit_status' = "exit_0"
    /\ pc' = "done"
    /\ UNCHANGED << data, typeVars, fwdVars, driverVars, runVars >>

NextJson ==
    \/ JsonDecodeError
    \/ JsonWritesResponse

SpecJson == InitJson /\ [][NextJson]_vars

(***************************************************************************)
(* Properties of generate_proto                                            *)
(***************************************************************************)
IsField(line) == line.line_type = "field"
FieldDefs(lines) == SelectSeq(lines, IsField)
IsFieldLine(text_line) == text_line.kind = "field"
FieldLines(message) == SelectSeq(message, IsFieldLine)
ImportSet(p) == { p.imports[k] : k \in 1..Len(p.imports) }

\* C1: the rendered message has one line per Document item, and its field
\* lines are the Document's FieldDefs in order, the k-th carrying field
\* number k: the numbers are exactly 1..F, whatever constants, comments and
\* empty lines stand between the fields.
C1_FieldNumbersInOrder ==
    pc = "done" =>
        LET defs == FieldDefs(parsed_msg)
            out == FieldLines(proto.message)
        IN  /\ Len(proto.message) = Len(parsed_msg)
            /\ Len(out) = Len(defs)
            /\ \A k \in 1..Len(out) :
                   /\ out[k].number = k
                   /\ out[k].typename = FieldTypename(defs[k].type)
            /\ \A i \in 1..Len(parsed_msg) :
                   IsField(parsed_msg[i]) <=> IsFieldLine(proto.message[i])

C1_Witness ==
    /\ pc = "done"
    /\ Len(parsed_msg) = 3
    /\ parsed_msg[1].line_type = "field"
    /\ parsed_msg[2].line_type = "constant"
    /\ parsed_msg[3].line_type = "field"
    /\ proto.message[1].number = 1
    /\ proto.message[3].number = 2

\* a field whose complex type, once mapped, is the message being rendered,
\* written unqualified or qualified with the current package
ResolvesToSelf(line) ==
    /\ IsField(line)
    /\ line.type.is_complextype
    /\ FieldTypename(line.type) \in { msg_name, package \o << "." >> \o msg_name }
NotSelf(line) == ~ResolvesToSelf(line)

\* C2: the fields that resolve to the message being rendered add nothing to
\* the imports: the import set is the one the Document gives without those
\* fields, and it is empty when every complex field is such a field.
C2_SelfReferenceNotImported ==
    pc = "done" =>
        /\ ImportSet(proto)
             = generate_proto_imports(SelectSeq(parsed_msg, NotSelf), msg_name, package)
        /\ (\A i \in 1..Len(parsed_msg) :
                (IsField(parsed_msg[i]) /\ parsed_msg[i].type.is_complextype)
                    => ResolvesToSelf(parsed_msg[i]))
            => proto.imports = << >>

C2_Witness ==
    /\ pc = "done"
    /\ Len(parsed_msg) = 3
    /\ ResolvesToSelf(parsed_msg[1]) /\ parsed_msg[1].type.package = << >>
    /\ ResolvesToSelf(parsed_msg[2]) /\ parsed_msg[2].type.package # << >>
    /\ IsField(parsed_msg[3]) /\ parsed_msg[3].type.is_complextype
    /\ NotSelf(parsed_msg[3])
    /\ Len(proto.imports) = 1

\* a field whose type the table maps to a well-known type of google.protobuf
MappedWellKnown(line) ==
    StartsWith(FieldTypename(line.type), s_google_protobuf \o << "." >>)

\* the imports C13 gives one line of the Document
ClaimedImports(line) ==
    IF ~IsField(line) \/ ~line.type.is_complextype \/ MappedWellKnown(line)
    THEN { }
    ELSE LET parts == Split(FieldTypename(line.type), ".")
             n == Len(parts)
             namespace == IF n = 1 THEN package
                          ELSE Join(SubSeq(parts, 1, n - 1), "/")
         IN  IF parts[n] = msg_name THEN { }
             ELSE { namespace \o << "/" >> \o to_snake_case(parts[n]) }

\* C13: the import set of the rendered proto is what its fields give this
\* way: nothing for a field that is no ComplexType or whose type is mapped
\* to a well-known type, nothing for a reference to the message itself,
\* and for every other ComplexType the one path
\* '<namespace or current package>/<snake_case of the type name>'.
C13_ImportsOnlyForUnmappedComplex ==
    pc = "done" =>
        ImportSet(proto)
            = UNION { ClaimedImports(parsed_msg[i]) : i \in 1..Len(parsed_msg) }

\* C11: two calls of generate_proto with the same Document, message name
\* and package return the identical text.
C11_SameTextEveryCall ==
    pc = "twice" => returned[1] = returned[2]

(***************************************************************************)
(* Properties of parse_msg and of the msg2proto driver                     *)
(***************************************************************************)
\* the grammar's top-level rule does not match the entire text
Rejected(msg_) == g_msg(msg_, 1, << >>).end # Len(msg_) + 1

\* the proto files written for the k-th msg file
WrittenFor(k) == { f \in proto_dir : f.path = ProtoFile(package, MsgName(k)) }

\* C7: parse_msg of the msg file converted last is None when the grammar
\* does not match its entire text and the Document of the entire text
\* otherwise.  For every msg file converted so far: if the grammar does not
\* match its entire text, no proto file is written for it; a proto file
\* that is written renders the Document of the entire text; and every file
\* the grammar matches (and that has a line) has its proto file, whatever
\* was rejected before it.  When main returns, every file has been
\* converted.
C7_AllOrNothing ==
    /\ file_idx > 0 =>
          IF Rejected(msg_files[file_idx])
          THEN parsed_msg = None
          ELSE parsed_msg = Some(g_msg(msg_files[file_idx], 1, << >>).v)
    /\ \A k \in 1..file_idx :
          LET msg_ == msg_files[k]
              document == g_msg(msg_, 1, << >>).v
          IN  /\ Rejected(msg_) => WrittenFor(k) = { }
              /\ \A f \in WrittenFor(k) :
                    /\ Len(f.text.message) = Len(document)
                    /\ \E set_order \in
                          Orders(generate_proto_imports(document, MsgName(k), package)) :
                        f.text = generate_proto(document, MsgName(k), package, set_order)
              /\ (~Rejected(msg_) /\ msg_ # << >>) => WrittenFor(k) # { }
    /\ pc = "done" => file_idx = Len(msg_files)

C7_Witness ==
    /\ pc = "done"
    /\ Len(msg_files) = 2
    /\ Rejected(msg_files[1])
    /\ Len(g_msg(msg_files[1], 1, << >>).v) = 1
    /\ WrittenFor(1) = { }
    /\ ~Rejected(msg_files[2])
    /\ WrittenFor(2) # { }

\* the lines of a text, ended by "\n", "\r\n" or "\r"
RECURSIVE SourceLines(_)
SourceLines(msg_) ==
    IF msg_ = << >> THEN << >>
    ELSE LET e == Find(msg_, 1, { "\n", "\r" })
             next == IF e < Len(msg_) /\ msg_[e] = "\r" /\ msg_[e + 1] = "\n"
                     THEN e + 2 ELSE e + 1
         IN  << SubSeq(msg_, 1, e - 1) >> \o SourceLines(SubSeq(msg_, next, Len(msg_)))

IsBlank(body) == \A i \in 1..Len(body) : body[i] \in { " ", "\t" }

\* C10: the Document of an accepted text has exactly one item per source
\* line, in order, an empty line giving an EmptyLine item and any other
\* line another item, whether the lines end in "\n", "\r" or "\r\n".
C10_OneItemPerLine ==
    (pc = "done" /\ ~parsed_msg.is_none) =>
        LET source == SourceLines(msg_files[1])
            document == parsed_msg.value
        IN  /\ Len(document) = Len(source)
            /\ \A i \in 1..Len(document) :
                   document[i].line_type = "emptyline" <=> IsBlank(source[i])

(***************************************************************************)
(* Properties of the protoc_gen_msg plugin                                 *)
(***************************************************************************)
\* the file the plugin was asked to generate: the last one listed
TargetFile == Last(data.proto_file)

Generated == pc = "done" /\ exit_status = "exit_0"

\* every message declared in or under a message, at any depth
RECURSIVE MessagesUnder(_)
MessagesUnder(message) ==
    { message } \cup UNION { MessagesUnder(message.nested_type[i]) :
                               i \in 1..Len(message.nested_type) }

DeclaredMessages(proto_file) ==
    UNION { MessagesUnder(proto_file.message_type[i]) :
              i \in 1..Len(proto_file.message_type) }

\* the names of the enums declared in the file, at top level or in a message
\* at any depth
DeclaredEnumNames(proto_file) ==
    { proto_file.enum_type[i].name : i \in 1..Len(proto_file.enum_type) }
    \cup UNION { { m.enum_type[i].name : i \in 1..Len(m.enum_type) } :
                   m \in DeclaredMessages(proto_file) }

MsgFileName(package_, name) ==
    package_ \o << "/" >> \o name \o << ".", "m", "s", "g" >>

\* the response entries generated for a message of the target file
EntriesOf(message) ==
    { k \in 1..Len(response.file) :
        response.file[k].name = MsgFileName(TargetFile.package, message.name) }

\* the number of '# EnumName' blocks for the enum in the text of a msg file
EnumBlocks(content, enum_name) ==
    Cardinality({ i \in 1..Len(content) :
                    content[i].kind = "enum_name" /\ content[i].name = enum_name })

\* C3: in every generated msg file, each enum of the schema file that the
\* message's fields refer to (once or several times) has exactly one
\* '# EnumName' block, wherever the enum is declared: at top level, in a
\* top-level message or in a nested message.
C3_EnumBlockExactlyOnce ==
    Generated =>
        \A m \in DeclaredMessages(TargetFile) : \A k \in EntriesOf(m) :
            \A e \in ReferencedEnums(m) \cap DeclaredEnumNames(TargetFile) :
                EnumBlocks(response.file[k].content, e) = 1

\* the positions of the '.' in a type name
Dots(type_name) == { i \in 1..Len(type_name) : type_name[i] = "." }
LastDot(type_name) == CHOOSE i \in Dots(type_name) : \A j \in Dots(type_name) : j <= i
\* .a.b.Name: the namespace a.b and the local name Name
Namespace(type_name) == SubSeq(type_name, 2, LastDot(type_name) - 1)
LocalName(type_name) == SubSeq(type_name, LastDot(type_name) + 1, Len(type_name))
IsFieldText(text_line) == text_line.kind = "field"

\* C4: a message-type field whose type name has the current package as its
\* namespace is rendered as the local message name alone (followed by []
\* when repeated), with no '.' and no '/', for packages of one segment and
\* of several.
C4_SamePackageCollapse ==
    Generated =>
        \A m \in DeclaredMessages(TargetFile) : \A k \in EntriesOf(m) :
            \A i \in 1..Len(m.field) :
                (/\ m.field[i].type = TYPE_MESSAGE
                 /\ Namespace(m.field[i].type_name) = TargetFile.package)
                => LET fieldtype ==
                           SelectSeq(response.file[k].content, IsFieldText)[i].fieldtype
                   IN  /\ fieldtype \in
                             { LocalName(m.field[i].type_name),
                               LocalName(m.field[i].type_name) \o << "[", "]" >> }
                       /\ \A j \in 1..Len(fieldtype) : fieldtype[j] \notin { ".", "/" }

\* C5: for a request that lists at least one file, the response holds
\* exactly one entry <package>/<MessageName>.msg for every message declared
\* in the last file, top-level or nested, no other entry (none for an enum,
\* none from another file), and is the response the last file alone gives.
C5_OneEntryPerMessage ==
    (pc = "done" /\ data.decodable /\ data.proto_file # << >>) =>
        /\ exit_status = "exit_0"
        /\ \A m \in DeclaredMessages(TargetFile) : Cardinality(EntriesOf(m)) = 1
        /\ \A k \in 1..Len(response.file) :
               \E m \in DeclaredMessages(TargetFile) : k \in EntriesOf(m)
        /\ response = generate_code([proto_file |-> << TargetFile >>], EmptyResponse)

\* C6: the plugin ends cleanly with a response for every request: for a
\* request that is malformed or lists no file, a response with an error
\* string and no file entry; otherwise a response with no error string; and
\* never a response with both an error string and file entries.
C6_AlwaysAResponse ==
    pc = "done" =>
        /\ exit_status = "exit_0"
        /\ IF ~data.decodable \/ data.proto_file = << >>
           THEN response.error # << >> /\ response.file = << >>
           ELSE response.error = << >>
        /\ ~(response.error # << >> /\ response.file # << >>)

(***************************************************************************)
(* Properties of the protoc_gen_json walker                                *)
(***************************************************************************)
\* a message, then its enums, then its nested messages, each walked the
\* same way, as [name, package] entries
RECURSIVE DeclaredWalk(_, _)
DeclaredWalk(package_, message) ==
    << [name |-> message.name, package |-> package_] >>
    \o [i \in 1..Len(message.enum_type) |->
           [name |-> message.enum_type[i].name, package |-> package_]]
    \o Concat([i \in 1..Len(message.nested_type) |->
                  DeclaredWalk(package_ \o << "." >> \o message.name,
                               message.nested_type[i])])

\* the top-level enums, then every top-level message walked
DeclaredOrder(proto_file) ==
    [i \in 1..Len(proto_file.enum_type) |->
        [name |-> proto_file.enum_type[i].name, package |-> proto_file.package]]
    \o Concat([i \in 1..Len(proto_file.message_type) |->
                  DeclaredWalk(proto_file.package, proto_file.message_type[i])])

\* the [name, package] entries of a generated JSON file, in order
Yielded(file) ==
    [i \in 1..Len(file.content) |->
        [name |-> file.content[i].name, package |-> file.content[i].package]]

\* the number of entries of a generated JSON file with the given name
TimesYielded(file, name) ==
    Cardinality({ i \in 1..Len(file.content) : file.content[i].name = name })

\* C12: for every schema file of the request, the walker yields every enum
\* and every message declared in it exactly once, at any depth of nesting:
\* the top-level enums in order, then each top-level message in order, each
\* message followed by its enums (with the message's package) and then its
\* nested messages.
C12_WalksEveryDeclaration ==
    Generated =>
        \A k \in 1..Len(data.proto_file) :
            LET proto_file == data.proto_file[k]
            IN  /\ \A m \in DeclaredMessages(proto_file) :
                       TimesYielded(response.file[k], m.name) = 1
                /\ \A e \in DeclaredEnumNames(proto_file) :
                       TimesYielded(response.file[k], e) = 1
                /\ Yielded(response.file[k]) = DeclaredOrder(proto_file)

(***************************************************************************)
(* Properties of the type tables                                           *)
(***************************************************************************)
\* the primitives the spec calls scalar-preserving
ScalarPreserving ==
    { <<"f","l","o","a","t","6","4">>, <<"f","l","o","a","t","3","2">>,
      <<"i","n","t","6","4">>, <<"u","i","n","t","6","4">>,
      <<"i","n","t","3","2">>, <<"u","i","n","t","3","2">>,
      <<"b","o","o","l">>, s_string }

\* C8: every primitive of msg2proto.map_type's table, mapped to its proto
\* scalar and back with protoc_gen_msg.map_type, comes back as itself when
\* it is one of the eight scalar-preserving types, and as another name when
\* it is one of the seven others (int16, uint16, int8, uint8, byte, char,
\* wstring).
C8_PrimitiveRoundTrip ==
    (pc = "done" /\ type_input.dir = "msg"
        /\ type_input.v \in DictKeys(msg2proto_primitive_map))
    => (back_type = type_input.v <=> type_input.v \in ScalarPreserving)

C8_Witness ==
    /\ pc = "done" /\ type_input.dir = "msg"
    /\ type_input.v = <<"u","i","n","t","3","2">>
    /\ mapped_type = <<"u","i","n","t","3","2">>
    /\ back_type = type_input.v

s_google_protobuf_Empty ==
    <<"g","o","o","g","l","e",".","p","r","o","t","o","b","u","f",".","E","m","p","t","y">>
s_google_protobuf_StringValue ==
    <<"g","o","o","g","l","e",".","p","r","o","t","o","b","u","f",".","S","t","r","i","n","g","V","a","l","u","e">>

\* C9 as claimed: map_type_name's table is the exact inverse of the
\* composite rows of msg2proto.map_type: every forward row k -> v is read
\* back as k, and every reverse row v -> k is mapped forward to v again.
C9_ExactInverse ==
    pc = "done" =>
        /\ (type_input.dir = "msg"
               /\ type_input.v \in DictKeys(msg2proto_composite_map))
            => back_type = type_input.v
        /\ (type_input.dir = "proto"
               /\ type_input.v \in DictKeys(gen_msg_type_name_map))
            => back_type = type_input.v

\* C9 as amended: every forward composite row k -> v is read back as k by
\* map_type_name, except Header (std_msgs.Header has no reverse row); and
\* every reverse row v -> k is mapped forward to v again, except
\* google.protobuf.Empty (std_msgs/Empty has no forward row) and
\* google.protobuf.StringValue (std_msgs/String maps forward to BytesValue).
C9_InverseButThreeRows ==
    pc = "done" =>
        /\ (type_input.dir = "msg"
               /\ type_input.v \in DictKeys(msg2proto_composite_map))
            => (back_type = type_input.v <=> type_input.v # s_Header)
        /\ (type_input.dir = "proto"
               /\ type_input.v \in DictKeys(gen_msg_type_name_map))
            => (back_type = type_input.v
                  <=> type_input.v \notin { s_google_protobuf_Empty,
                                            s_google_protobuf_StringValue })

C9_Witness ==
    /\ pc = "done" /\ type_input.dir = "msg"
    /\ type_input.v = s_std_msgs_String
    /\ StartsWith(mapped_type, s_google_protobuf)
    /\ back_type = s_std_msgs_String

\* the kinds protoc gives the fields declared with a scalar keyword
ScalarKinds ==
    { ScalarKeywordKind[i][2] : i \in 1..Len(ScalarKeywordKind) }

\* C14: a lookup that finds no table entry gives the default: map_type of a
\* kind that is neither message nor enum nor the kind of a scalar keyword
\* (the group kind, an unknown kind number) gives 'string'; map_type_name
\* of a google.protobuf type without a row gives 'std_msgs/String'; and
\* msg2proto.map_type of a name without a row gives the name with '/'
\* replaced by '.'.
C14_DefaultForUnmapped ==
    pc # "start" =>
        /\ (type_input.dir = "kind"
               /\ type_input.v \notin ScalarKinds \cup { TYPE_MESSAGE, TYPE_ENUM })
            => mapped_type = s_string
        /\ (type_input.dir = "proto"
               /\ StartsWith(type_input.v, s_google_protobuf)
               /\ type_input.v \notin DictKeys(gen_msg_type_name_map))
            => mapped_type = s_std_msgs_String
        /\ (type_input.dir = "msg"
               /\ type_input.v \notin DictKeys(msg2proto_map))
            => mapped_type = Replace(type_input.v, "/", ".")

=============================================================================
